---- MODULE Spec2Model ----
(***************************************************************************)
(* One-Time Password (tray): the password store (PasswordStore), its       *)
(* at-rest record (keyring vault in app.py, DPAPI / base64 file in         *)
(* app_V2.py) and the clipboard auto-clear of MainWindow.                  *)
(*                                                                         *)
(* Strings are sequences of Unicode code points, byte strings sequences of *)
(* 0..255, base64 text sequences of alphabet indexes 0..63, with 64 for    *)
(* the pad character '=' and 65 for a character outside the alphabet.      *)
(***************************************************************************)
EXTENDS Integers, Sequences, FiniteSets, TLC

(* Optional[str]: None is a value that is no string. *)
None == << 0 - 1 >>

EmptyStr == << >>

(* Python truthiness of an Optional[str]: None and "" are falsy. *)
Truthy(s) == s # None /\ s # EmptyStr

Tail3(s) == SubSeq(s, 4, Len(s))

(***************************************************************************)
(* str.encode("utf-8") / bytes.decode("utf-8")                             *)
(***************************************************************************)
IsSurrogate(cp) == cp >= 55296 /\ cp <= 57343

Utf8EncodeOne(cp) ==
    IF cp < 128 THEN << cp >>
    ELSE IF cp < 2048 THEN << 192 + (cp \div 64), 128 + (cp % 64) >>
    ELSE IF cp < 65536
         THEN << 224 + (cp \div 4096), 128 + ((cp \div 64) % 64), 128 + (cp % 64) >>
    ELSE << 240 + (cp \div 262144), 128 + ((cp \div 4096) % 64),
            128 + ((cp \div 64) % 64), 128 + (cp % 64) >>

RECURSIVE Utf8Bytes(_)
Utf8Bytes(s) ==
    IF s = << >> THEN << >> ELSE Utf8EncodeOne(Head(s)) \o Utf8Bytes(Tail(s))

(* encode raises UnicodeEncodeError on a lone surrogate *)
Utf8Encode(s) ==
    IF \E i \in 1..Len(s) : IsSurrogate(s[i])
    THEN [ok |-> FALSE, bytes |-> << >>]
    ELSE [ok |-> TRUE, bytes |-> Utf8Bytes(s)]

IsCont(b) == b >= 128 /\ b <= 191

(* number of bytes of the well-formed sequence at the head of b, 0 if none *)
Utf8SeqLen(b) ==
    LET b1 == b[1] IN
    IF b1 < 128 THEN 1
    ELSE IF b1 >= 194 /\ b1 <= 223
         THEN IF Len(b) >= 2 /\ IsCont(b[2]) THEN 2 ELSE 0
    ELSE IF b1 >= 224 /\ b1 <= 239
         THEN IF /\ Len(b) >= 3
                 /\ IsCont(b[2])
                 /\ IsCont(b[3])
                 /\ (b1 = 224 => b[2] >= 160)
                 /\ (b1 = 237 => b[2] <= 159)
              THEN 3 ELSE 0
    ELSE IF b1 >= 240 /\ b1 <= 244
         THEN IF /\ Len(b) >= 4
                 /\ IsCont(b[2])
                 /\ IsCont(b[3])
                 /\ IsCont(b[4])
                 /\ (b1 = 240 => b[2] >= 144)
                 /\ (b1 = 244 => b[2] <= 143)
              THEN 4 ELSE 0
    ELSE 0

Utf8Cp(b, n) ==
    IF n = 1 THEN b[1]
    ELSE IF n = 2 THEN (b[1] - 192) * 64 + (b[2] - 128)
    ELSE IF n = 3 THEN (b[1] - 224) * 4096 + (b[2] - 128) * 64 + (b[3] - 128)
    ELSE (b[1] - 240) * 262144 + (b[2] - 128) * 4096 + (b[3] - 128) * 64 + (b[4] - 128)

RECURSIVE Utf8Decode(_)
Utf8Decode(b) ==
    IF b = << >> THEN [ok |-> TRUE, str |-> << >>]
    ELSE LET n == Utf8SeqLen(b) IN
         IF n = 0 THEN [ok |-> FALSE, str |-> << >>]
         ELSE LET rest == Utf8Decode(SubSeq(b, n + 1, Len(b))) IN
              IF rest.ok
              THEN [ok |-> TRUE, str |-> << Utf8Cp(b, n) >> \o rest.str]
              ELSE rest

(***************************************************************************)
(* base64.b64encode / base64.b64decode (validate=False)                    *)
(***************************************************************************)
Pad == 64

(* as b64encode, leaving the padding out *)
RECURSIVE B64Encode_Unpadded(_)
B64Encode_Unpadded(b) ==
    IF Len(b) = 0 THEN << >>
    ELSE IF Len(b) = 1
         THEN << b[1] \div 4, (b[1] % 4) * 16 >>
    ELSE IF Len(b) = 2
         THEN << b[1] \div 4, (b[1] % 4) * 16 + (b[2] \div 16), (b[2] % 16) * 4 >>
    ELSE << b[1] \div 4,
            (b[1] % 4) * 16 + (b[2] \div 16),
            (b[2] % 16) * 4 + (b[3] \div 64),
            b[3] % 64 >> \o B64Encode_Unpadded(SubSeq(b, 4, Len(b)))

RECURSIVE B64Encode(_)
B64Encode(b) ==
    IF Len(b) = 0 THEN << >>
    ELSE IF Len(b) = 1
         THEN << b[1] \div 4, (b[1] % 4) * 16, Pad, Pad >>
    ELSE IF Len(b) = 2
         THEN << b[1] \div 4, (b[1] % 4) * 16 + (b[2] \div 16), (b[2] % 16) * 4, Pad >>
    ELSE << b[1] \div 4,
            (b[1] % 4) * 16 + (b[2] \div 16),
            (b[2] % 16) * 4 + (b[3] \div 64),
            b[3] % 64 >> \o B64Encode(Tail3(b))

(* binascii.a2b_base64, non-strict: s the input left, q the position in the
   quad, left the bits carried, pads the pad characters seen in a row. *)
RECURSIVE A2B(_, _, _, _, _)
A2B(s, q, left, pads, out) ==
    IF s = << >>
    THEN [ok |-> (q = 0), bytes |-> out]
    ELSE LET c == Head(s) IN
         IF c = Pad
         THEN IF q >= 2 /\ q + pads + 1 >= 4
              THEN [ok |-> TRUE, bytes |-> out]
              ELSE A2B(Tail(s), q, left, IF q >= 2 THEN pads + 1 ELSE pads, out)
         ELSE IF c > Pad
         THEN A2B(Tail(s), q, left, pads, out)
         ELSE IF q = 0 THEN A2B(Tail(s), 1, c, 0, out)
         ELSE IF q = 1
              THEN A2B(Tail(s), 2, c % 16, 0, Append(out, left * 4 + (c \div 16)))
         ELSE IF q = 2
              THEN A2B(Tail(s), 3, c % 4, 0, Append(out, left * 16 + (c \div 4)))
         ELSE A2B(Tail(s), 0, 0, 0, Append(out, left * 64 + c))

B64Decode(s) == A2B(s, 0, 0, 0, << >>)

(***************************************************************************)
(* The builds: app.py with the keyring library present or absent           *)
(* (keyring = None), app_V2.py on Windows (DPAPI) and elsewhere (base64).  *)
(***************************************************************************)
Builds == {"app_keyring", "app_memory", "v2_dpapi", "v2_base64"}

IsV2(b) == b \in {"v2_dpapi", "v2_base64"}
IS_WINDOWS(b) == b = "v2_dpapi"
HasKeyring(b) == b = "app_keyring"

USERNAME_LABEL == "default"

(* The user/device context the OS binds ciphertext to. *)
CurCtx == 1
ForeignCtx == 2

(***************************************************************************)
(* CryptProtectData / CryptUnprotectData: the OS primitive, abstracted as  *)
(* a context-bound, integrity-checked envelope around the plaintext bytes. *)
(***************************************************************************)
RECURSIVE WeightedSum(_, _)
WeightedSum(raw, i) ==
    IF raw = << >> THEN 0 ELSE i * Head(raw) + WeightedSum(Tail(raw), i + 1)

BlobMac(raw, ctx) == (7 * ctx + Len(raw) + WeightedSum(raw, 1)) % 256

CryptProtectData(raw, ctx) ==
    << ctx >> \o [i \in 1..Len(raw) |-> (raw[i] + ctx) % 256] \o << BlobMac(raw, ctx) >>

CryptUnprotectData(blob, ctx) ==
    IF Len(blob) < 2 \/ blob[1] # ctx
    THEN [ok |-> FALSE, bytes |-> << >>]
    ELSE LET n == Len(blob) - 2
             raw == [i \in 1..n |-> (blob[i + 1] + 256 - ctx) % 256]
         IN IF blob[Len(blob)] = BlobMac(raw, ctx)
            THEN [ok |-> TRUE, bytes |-> raw]
            ELSE [ok |-> FALSE, bytes |-> << >>]

(* as dpapi_encrypt, taking the base64 fallback on every platform *)
dpapi_encrypt_Passthrough(b, plaintext, ctx, api_ok) ==
    LET raw == Utf8Encode(plaintext) IN
    IF ~raw.ok THEN [ok |-> FALSE, enc |-> << >>]
    ELSE [ok |-> TRUE, enc |-> B64Encode(raw.bytes)]

(* dpapi_encrypt: [ok, enc]; ok = FALSE is the exception it raises.
   api_ok is the outcome of the CryptProtectData call. *)
dpapi_encrypt(b, plaintext, ctx, api_ok) ==
    LET raw == Utf8Encode(plaintext) IN
    IF ~raw.ok THEN [ok |-> FALSE, enc |-> << >>]
    ELSE IF IS_WINDOWS(b)
         THEN IF ~api_ok THEN [ok |-> FALSE, enc |-> << >>]
              ELSE [ok |-> TRUE, enc |-> B64Encode(CryptProtectData(raw.bytes, ctx))]
    ELSE [ok |-> TRUE, enc |-> B64Encode(raw.bytes)]

(* dpapi_decrypt: the plaintext, or None *)
dpapi_decrypt(b, b64, ctx) ==
    LET enc == B64Decode(b64) IN
    IF ~enc.ok THEN None
    ELSE IF IS_WINDOWS(b)
         THEN LET out == CryptUnprotectData(enc.bytes, ctx) IN
              IF ~out.ok THEN None
              ELSE LET dec == Utf8Decode(out.bytes) IN
                   IF dec.ok THEN dec.str ELSE None
    ELSE LET dec == Utf8Decode(enc.bytes) IN
         IF dec.ok THEN dec.str ELSE None

(***************************************************************************)
(* The persisted record: cred.json (app_V2.py) or the vault entry of       *)
(* keyring (app.py).                                                       *)
(*   kind "absent"  : no file, no vault entry                              *)
(*   kind "json"    : cred.json holds {"label": label, "dpapi": enc}       *)
(*   kind "garbage" : cred.json exists and is no JSON document             *)
(*   kind "vault"   : the vault holds pw for (service, account)            *)
(***************************************************************************)
Absent == [kind |-> "absent", label |-> "", enc |-> << >>, pw |-> << >>]
Garbage == [kind |-> "garbage", label |-> "", enc |-> << >>, pw |-> << >>]
JsonRecord(label, enc) == [kind |-> "json", label |-> label, enc |-> enc, pw |-> << >>]
VaultRecord(pw) == [kind |-> "vault", label |-> "", enc |-> << >>, pw |-> pw]

(***************************************************************************)
(* PasswordStore. Each operation is a function of the build, the cache     *)
(* (_in_memory), the record and the outcome of the collaborator calls it   *)
(* makes, to the new cache and record, the value returned and whether an   *)
(* exception left the method.                                              *)
(***************************************************************************)
(* What can go wrong in the collaborators during one operation: reading the
   record (read), the encryption call (encrypt), creating the directory or
   opening the record for writing (open), writing it once opened (write),
   deleting it (delete), and the platform clipboard: cb.text() raising
   (cb_text), the first cb.clear() raising (cb_clear), cb.setText(pw)
   raising in copy_password (cb_setText), or a platform that silently
   refuses to change the clipboard (cb_noop). *)
Faults == {"none", "read", "encrypt", "open", "write", "delete",
           "cb_text", "cb_clear", "cb_setText", "cb_noop"}

(* as PasswordStore.get of app_V2.py, returning the decrypted password
   without keeping it in the cache *)
GetV2_NoCache(b, mem, rec, ctx, fault) ==
    IF Truthy(mem) THEN [ret |-> mem, mem |-> mem, raised |-> FALSE]
    ELSE IF rec.kind # "json" \/ fault = "read" \/ rec.enc = << >>
         THEN [ret |-> None, mem |-> mem, raised |-> FALSE]
    ELSE [ret |-> dpapi_decrypt(b, rec.enc, ctx), mem |-> mem, raised |-> FALSE]

(* app_V2.py PasswordStore.get *)
GetV2(b, mem, rec, ctx, fault) ==
    IF Truthy(mem) THEN [ret |-> mem, mem |-> mem, raised |-> FALSE]
    ELSE IF rec.kind # "json" \/ fault = "read"
         THEN [ret |-> None, mem |-> mem, raised |-> FALSE]
    ELSE IF rec.enc = << >>
         THEN [ret |-> None, mem |-> mem, raised |-> FALSE]
    ELSE LET pw == dpapi_decrypt(b, rec.enc, ctx) IN
         IF Truthy(pw) THEN [ret |-> pw, mem |-> pw, raised |-> FALSE]
         ELSE [ret |-> None, mem |-> mem, raised |-> FALSE]

(* app.py PasswordStore.get *)
GetApp(b, mem, rec, fault) ==
    IF Truthy(mem) THEN [ret |-> mem, mem |-> mem, raised |-> FALSE]
    ELSE IF HasKeyring(b) /\ fault # "read" /\ rec.kind = "vault" /\ Truthy(rec.pw)
         THEN [ret |-> rec.pw, mem |-> rec.pw, raised |-> FALSE]
    ELSE [ret |-> None, mem |-> mem, raised |-> FALSE]

StoreGet(b, mem, rec, ctx, fault) ==
    IF IsV2(b) THEN GetV2(b, mem, rec, ctx, fault) ELSE GetApp(b, mem, rec, fault)

(* as PasswordStore.set of app_V2.py, giving up the cache when the record
   cannot be written *)
SetV2_DropOnFailure(b, rec, ctx, password, remember_device, fault) ==
    IF ~remember_device THEN [mem |-> password, rec |-> rec, raised |-> FALSE]
    ELSE LET e == dpapi_encrypt(b, password, ctx, fault # "encrypt") IN
         IF ~e.ok \/ fault = "open" THEN [mem |-> None, rec |-> rec, raised |-> FALSE]
         ELSE IF fault = "write" THEN [mem |-> None, rec |-> Garbage, raised |-> FALSE]
         ELSE [mem |-> password, rec |-> JsonRecord(USERNAME_LABEL, e.enc), raised |-> FALSE]

(* as PasswordStore.set of app_V2.py, writing the record whatever
   remember_device says *)
SetV2_AlwaysWrites(b, rec, ctx, password, remember_device, fault) ==
    LET e == dpapi_encrypt(b, password, ctx, fault # "encrypt") IN
    IF ~e.ok \/ fault = "open" THEN [mem |-> password, rec |-> rec, raised |-> FALSE]
    ELSE IF fault = "write" THEN [mem |-> password, rec |-> Garbage, raised |-> FALSE]
    ELSE [mem |-> password, rec |-> JsonRecord(USERNAME_LABEL, e.enc), raised |-> FALSE]

(* app_V2.py PasswordStore.set *)
SetV2(b, rec, ctx, password, remember_device, fault) ==
    IF ~remember_device THEN [mem |-> password, rec |-> rec, raised |-> FALSE]
    ELSE LET e == dpapi_encrypt(b, password, ctx, fault # "encrypt") IN
         IF ~e.ok THEN [mem |-> password, rec |-> rec, raised |-> FALSE]
         ELSE IF fault = "open" THEN [mem |-> password, rec |-> rec, raised |-> FALSE]
         ELSE IF fault = "write" THEN [mem |-> password, rec |-> Garbage, raised |-> FALSE]
         ELSE [mem |-> password, rec |-> JsonRecord(USERNAME_LABEL, e.enc), raised |-> FALSE]

(* app.py PasswordStore.set *)
SetApp(b, rec, password, remember_device, fault) ==
    IF remember_device /\ HasKeyring(b) /\ fault # "write"
    THEN [mem |-> password, rec |-> VaultRecord(password), raised |-> FALSE]
    ELSE [mem |-> password, rec |-> rec, raised |-> FALSE]

StoreSet(b, rec, ctx, password, remember_device, fault) ==
    IF IsV2(b) THEN SetV2(b, rec, ctx, password, remember_device, fault)
    ELSE SetApp(b, rec, password, remember_device, fault)

(* as clear_device_store, emptying the record's file instead of removing it *)
StoreClearDeviceStore_Truncates(b, rec, fault) ==
    IF rec.kind # "absent" /\ fault # "delete" THEN Garbage ELSE rec

(* PasswordStore.clear_device_store, both programs: the record afterwards *)
StoreClearDeviceStore(b, rec, fault) ==
    IF IsV2(b)
    THEN IF rec.kind # "absent" /\ fault # "delete" THEN Absent ELSE rec
    ELSE IF HasKeyring(b) /\ rec.kind = "vault" /\ fault # "delete" THEN Absent ELSE rec

(* PasswordStore.clear_memory: the cache afterwards *)
StoreClearMemory(mem) == None

(***************************************************************************)
(* Inputs                                                                  *)
(***************************************************************************)
(* the passwords typed during a run: "A", "Bé", "C", "Dë", ...: every other
   one ends in a two-byte character *)
MaxSecrets == 2
Secret(i) == IF i % 2 = 1 THEN << 64 + i >> ELSE << 64 + i, 231 + i >>
Secrets == { Secret(i) : i \in 1..MaxSecrets }

(* what another application puts on the clipboard *)
OtherText == << 111 >>

ClipTexts == Secrets \cup {OtherText, EmptyStr}

(* PasswordDialog.get_values: the text typed, and the "remember" box, which
   is disabled (and so unchecked) where no device store is available *)
DialogTexts == Secrets \cup {EmptyStr}
DialogRemember(b) == IF IS_WINDOWS(b) \/ HasKeyring(b) THEN BOOLEAN ELSE {FALSE}
(* the text of chk_remember, which tells the user where the password goes *)
RememberLabel(b) ==
    IF IsV2(b)
    THEN IF IS_WINDOWS(b) THEN "Remember on this device (Windows-protected store)"
         ELSE "Remember for this session only (device store unavailable)"
    ELSE IF HasKeyring(b) THEN "Remember on this device (secure store)"
         ELSE "Remember for this session (secure store not available)"
Cancelled == [accepted |-> FALSE, text |-> EmptyStr, remember |-> FALSE]
DialogOutcomes(b) ==
    {Cancelled} \cup
    { [accepted |-> TRUE, text |-> x, remember |-> r] :
        x \in DialogTexts, r \in DialogRemember(b) }

(* the faults that can strike the store calls made for one dialog outcome *)
DialogFaults(b, d) ==
    IF ~d.accepted \/ ~Truthy(d.text) THEN {"none"}
    ELSE IF IS_WINDOWS(b) /\ d.remember THEN {"none", "encrypt", "open", "write"}
    ELSE IF HasKeyring(b) /\ d.remember THEN {"none", "write"}
    ELSE IF HasKeyring(b) THEN {"none", "delete"}
    ELSE {"none"}

(* as QSpinBox.setValue with no range set: the value is taken as it is *)
SpinClamp_None(v) == v

(* QSpinBox.setRange(3, 300) *)
SpinMin == 3
SpinMax == 300
SpinClamp(v) == IF v < SpinMin THEN SpinMin ELSE IF v > SpinMax THEN SpinMax ELSE v

(* Settings.__init__ *)
DefaultAutoClear == TRUE
DefaultAutoClearSecs == 20

(* values the user dials on the spin box during a session *)
SpinChoices == {SpinMin}

(***************************************************************************)
(* State                                                                   *)
(***************************************************************************)
VARIABLES
    build,              \* which program and platform runs
    in_memory,          \* PasswordStore._in_memory
    record,             \* the persisted record
    clipboard,          \* the text on the system clipboard
    last_copied_value,  \* MainWindow._last_copied_value
    timers,             \* the pending timeouts of _clear_timer
    chk_auto,           \* chk_auto.isChecked()
    spin_secs,          \* spin_secs.value()
    settings,           \* MainWindow.settings
    settings_file,      \* settings.json
    ev,                 \* the operation that ran last, its arguments and result
    fire_pc             \* where _maybe_clear_clipboard stands, "idle" outside it

vars == << fire_pc, build, in_memory, record, clipboard, last_copied_value, timers,
           chk_auto, spin_secs, settings, settings_file, ev >>

(* op: the operation; set: whether it called PasswordStore.set, with pw and
   remember; ret: what PasswordStore.get returned to it (None if not called);
   copied: whether it wrote the clipboard (pw is then the text copied);
   rearm: whether it started the timer while a timeout was pending;
   raised: whether an exception left the operation; repeat: whether a bare
   clear_device_store came right after another one;
   fault: the fault injected. For timer_fire, pw is the snapshot compared;
   for a bare PasswordStore.get, pw is the cache as the call found it; for
   a dialog accepted with an empty text, pw is that empty text. *)
Ev(op, set, pw, remember, ret, copied, fault) ==
    [op |-> op, set |-> set, pw |-> pw, remember |-> remember, ret |-> ret,
     copied |-> copied, rearm |-> FALSE, raised |-> FALSE, repeat |-> FALSE,
     fault |-> fault]

(***************************************************************************)
(* QTimer, single-shot: a pending timeout is [interval, due], due once the *)
(* interval has elapsed since start().                                     *)
(***************************************************************************)
(* as QTimer.start, leaving the timeout already pending in place *)
QTimerStart_KeepsPending(ts, msec) == ts \cup { [interval |-> msec, due |-> FALSE] }

(* QTimer.start(msec) stops a running timer and starts it again *)
QTimerStart(ts, msec) == { [interval |-> msec, due |-> FALSE] }

Max(a, b) == IF a >= b THEN a ELSE b

(***************************************************************************)
(* Settings                                                                *)
(***************************************************************************)
NoSettingsFile == [kind |-> "absent", auto_clear |-> DefaultAutoClear,
                   auto_clear_secs |-> DefaultAutoClearSecs]
SettingsJson(a, s) == [kind |-> "json", auto_clear |-> a, auto_clear_secs |-> s]

(* Settings.__init__ then Settings.load *)
SettingsLoad(file) ==
    IF file.kind = "json"
    THEN [auto_clear |-> file.auto_clear, auto_clear_secs |-> file.auto_clear_secs]
    ELSE [auto_clear |-> DefaultAutoClear, auto_clear_secs |-> DefaultAutoClearSecs]

(* Settings.save: the file afterwards *)
SettingsSave(s, file, fault) ==
    IF fault = "open" THEN file
    ELSE SettingsJson(s.auto_clear, s.auto_clear_secs)

(***************************************************************************)
(* MainWindow handlers, as functions of the state they read                *)
(***************************************************************************)
(* change_password after the dialog was accepted with a non-empty text,
   app_V2.py: remember forced off where there is no device store, set,
   refresh_status *)
SetFromDialogV2(b, rec, ctx, pw, remember, fault) ==
    LET rem == IF ~IS_WINDOWS(b) /\ remember THEN FALSE ELSE remember
        s == StoreSet(b, rec, ctx, pw, rem, fault)
        g == StoreGet(b, s.mem, s.rec, ctx, fault)
    IN [mem |-> g.mem, rec |-> s.rec, remember |-> rem]

(* the same in app.py: the record is deleted first when remember is off *)
SetFromDialogApp(b, rec, ctx, pw, remember, fault) ==
    LET rec1 == IF ~remember /\ HasKeyring(b)
                THEN StoreClearDeviceStore(b, rec, fault) ELSE rec
        s == StoreSet(b, rec1, ctx, pw, remember, fault)
        g == StoreGet(b, s.mem, s.rec, ctx, fault)
    IN [mem |-> g.mem, rec |-> s.rec, remember |-> remember]

SetFromDialog(b, rec, ctx, pw, remember, fault) ==
    IF IsV2(b) THEN SetFromDialogV2(b, rec, ctx, pw, remember, fault)
    ELSE SetFromDialogApp(b, rec, ctx, pw, remember, fault)

(* clear_saved_password: clear_device_store, clear_memory, refresh_status *)
ClearSaved(b, mem, rec, ctx, fault) ==
    LET rec1 == StoreClearDeviceStore(b, rec, fault)
        mem1 == StoreClearMemory(mem)
        g == StoreGet(b, mem1, rec1, ctx, fault)
    IN [mem |-> g.mem, rec |-> rec1, ret |-> g.ret]

(* as copy_password up to the clipboard write, without the test that the
   text typed in the dialog is not empty *)
CopySource_NoGuard(b, mem, rec, ctx, accepted, text, remember, fault) ==
    LET g == StoreGet(b, mem, rec, ctx, fault) IN
    IF Truthy(g.ret)
    THEN [copy |-> TRUE, pw |-> g.ret, mem |-> g.mem, rec |-> rec,
          set |-> FALSE, remember |-> FALSE, ret |-> g.ret]
    ELSE IF ~accepted
    THEN [copy |-> FALSE, pw |-> None, mem |-> g.mem, rec |-> rec,
          set |-> FALSE, remember |-> FALSE, ret |-> g.ret]
    ELSE LET d == SetFromDialog(b, rec, ctx, text, remember, fault) IN
         [copy |-> TRUE, pw |-> text, mem |-> d.mem, rec |-> d.rec,
          set |-> TRUE, remember |-> d.remember, ret |-> g.ret]

(* as copy_password up to the clipboard write, removing the record once the
   stored password has been fetched *)
CopySource_Forgets(b, mem, rec, ctx, accepted, text, remember, fault) ==
    LET g == StoreGet(b, mem, rec, ctx, fault) IN
    IF Truthy(g.ret)
    THEN [copy |-> TRUE, pw |-> g.ret, mem |-> g.mem, rec |-> Absent,
          set |-> FALSE, remember |-> FALSE, ret |-> g.ret]
    ELSE IF ~accepted \/ ~Truthy(text)
    THEN [copy |-> FALSE, pw |-> IF accepted THEN text ELSE None,
          mem |-> g.mem, rec |-> rec,
          set |-> FALSE, remember |-> FALSE, ret |-> g.ret]
    ELSE LET d == SetFromDialog(b, rec, ctx, text, remember, fault) IN
         [copy |-> TRUE, pw |-> text, mem |-> d.mem, rec |-> d.rec,
          set |-> TRUE, remember |-> d.remember, ret |-> g.ret]

(* copy_password up to the clipboard write: the password to copy, if any *)
CopySource(b, mem, rec, ctx, accepted, text, remember, fault) ==
    LET g == StoreGet(b, mem, rec, ctx, fault) IN
    IF Truthy(g.ret)
    THEN [copy |-> TRUE, pw |-> g.ret, mem |-> g.mem, rec |-> rec,
          set |-> FALSE, remember |-> FALSE, ret |-> g.ret]
    ELSE IF ~accepted \/ ~Truthy(text)
    THEN [copy |-> FALSE, pw |-> IF accepted THEN text ELSE None,
          mem |-> g.mem, rec |-> rec,
          set |-> FALSE, remember |-> FALSE, ret |-> g.ret]
    ELSE LET d == SetFromDialog(b, rec, ctx, text, remember, fault) IN
         [copy |-> TRUE, pw |-> text, mem |-> d.mem, rec |-> d.rec,
          set |-> TRUE, remember |-> d.remember, ret |-> g.ret]

(* as copy_password from the clipboard write on, starting the timer without
   recording what was copied *)
CopyToClipboard_NoSnapshot(pw, clip, snap, ts, auto, secs, fault) ==
    IF fault = "cb_setText"
    THEN [clipboard |-> clip, snapshot |-> snap, timers |-> ts, raised |-> TRUE]
    ELSE [clipboard |-> IF fault = "cb_noop" THEN clip ELSE pw,
          snapshot |-> snap,
          timers |-> IF auto THEN QTimerStart(ts, Max(1, secs) * 1000) ELSE ts,
          raised |-> FALSE]

(* as copy_password from the clipboard write on, taking the auto-clear flag
   and seconds from the Settings object instead of the two widgets *)
CopyToClipboard_FromSettings(pw, clip, snap, ts, auto, secs, fault) ==
    IF fault = "cb_setText"
    THEN [clipboard |-> clip, snapshot |-> snap, timers |-> ts, raised |-> TRUE]
    ELSE [clipboard |-> IF fault = "cb_noop" THEN clip ELSE pw,
          snapshot |-> pw,
          timers |-> IF settings.auto_clear
                     THEN QTimerStart(ts, Max(1, settings.auto_clear_secs) * 1000)
                     ELSE ts,
          raised |-> FALSE]

(* copy_password from the clipboard write on: clipboard, snapshot, timer,
   and whether cb.setText, which no try block encloses, raised *)
CopyToClipboard(pw, clip, snap, ts, auto, secs, fault) ==
    IF fault = "cb_setText"
    THEN [clipboard |-> clip, snapshot |-> snap, timers |-> ts, raised |-> TRUE]
    ELSE [clipboard |-> IF fault = "cb_noop" THEN clip ELSE pw,
          snapshot |-> pw,
          timers |-> IF auto THEN QTimerStart(ts, Max(1, secs) * 1000) ELSE ts,
          raised |-> FALSE]

(* as _maybe_clear_clipboard, without the comparison with the snapshot *)
MaybeClearClipboard_Unchecked(clip, snap, fault) ==
    LET cleared ==
            /\ snap # None
            /\ fault \notin {"cb_text", "cb_clear", "cb_noop"}
    IN [clipboard |-> IF cleared THEN EmptyStr ELSE clip,
        snapshot |-> None]

(* as _maybe_clear_clipboard, resetting the snapshot at the end of the try
   block instead of in a finally clause *)
MaybeClearClipboard_NoFinally(clip, snap, fault) ==
    LET cleared ==
            /\ snap # None
            /\ fault # "cb_text"
            /\ clip = snap
            /\ fault \notin {"cb_clear", "cb_noop"}
    IN [clipboard |-> IF cleared THEN EmptyStr ELSE clip,
        snapshot |-> IF fault \in {"cb_text", "cb_clear"} THEN snap ELSE None]

(* as _maybe_clear_clipboard, comparing a clipboard text stripped of its
   last character *)
MaybeClearClipboard_Stripped(clip, snap, fault) ==
    LET cleared ==
            /\ snap # None
            /\ fault # "cb_text"
            /\ SubSeq(clip, 1, Len(clip) - 1) = snap
            /\ fault \notin {"cb_clear", "cb_noop"}
    IN [clipboard |-> IF cleared THEN EmptyStr ELSE clip,
        snapshot |-> None]

(* _maybe_clear_clipboard: the clipboard and the snapshot afterwards *)
MaybeClearClipboard(clip, snap, fault) ==
    LET cleared ==
            /\ snap # None
            /\ fault # "cb_text"
            /\ clip = snap
            /\ fault \notin {"cb_clear", "cb_noop"}
    IN [clipboard |-> IF cleared THEN EmptyStr ELSE clip,
        snapshot |-> None]

(***************************************************************************)
(* The application: first launch, then the handlers of MainWindow, the     *)
(* passing of time, other applications writing the clipboard, and quitting *)
(* and launching again.                                                    *)
(***************************************************************************)
(* settings.json as found at first launch: none, or one edited by hand *)
InitSettingsFiles == { NoSettingsFile }

(* MainWindow.__init__: what a newly launched application holds *)
Launched(b, rec, file, fault) ==
    LET s == SettingsLoad(file)
        g == StoreGet(b, None, rec, CurCtx, fault)
    IN [settings |-> s,
        in_memory |-> g.mem,
        ret |-> g.ret,
        last_copied_value |-> None,
        timers |-> { },
        chk_auto |-> s.auto_clear,
        spin_secs |-> SpinClamp(s.auto_clear_secs)]

Init ==
    /\ fire_pc = "idle"
    /\ build \in Builds
    /\ settings_file \in InitSettingsFiles
    /\ record = Absent
    /\ clipboard = EmptyStr
    /\ LET m == Launched(build, record, settings_file, "none") IN
         /\ settings = m.settings
         /\ in_memory = m.in_memory
         /\ last_copied_value = m.last_copied_value
         /\ timers = m.timers
         /\ chk_auto = m.chk_auto
         /\ spin_secs = m.spin_secs
    /\ ev = Ev("init", FALSE, None, FALSE, None, FALSE, "none")

(* the user quits (act_quit) and launches the application again *)
Restart ==
    \E fault \in {"none", "read"} :
    \E m \in { Launched(build, record, settings_file, fault) } :
        /\ settings' = m.settings
        /\ in_memory' = m.in_memory
        /\ last_copied_value' = m.last_copied_value
        /\ timers' = m.timers
        /\ chk_auto' = m.chk_auto
        /\ spin_secs' = m.spin_secs
        /\ ev' = Ev("restart", FALSE, None, FALSE, m.ret, FALSE, fault)
        /\ UNCHANGED << fire_pc, build, record, settings_file, clipboard >>

ChangePassword ==
    \E d \in DialogOutcomes(build) : \E fault \in DialogFaults(build, d) :
        /\ IF d.accepted /\ Truthy(d.text)
           THEN \E s \in { SetFromDialog(build, record, CurCtx, d.text, d.remember,
                                          fault) } :
                /\ in_memory' = s.mem
                /\ record' = s.rec
                /\ ev' = Ev("change_password", TRUE, d.text, s.remember, None, FALSE, fault)
           ELSE /\ UNCHANGED << in_memory, record >>
                /\ ev' = Ev("change_password", FALSE,
                            IF d.accepted THEN d.text ELSE None,
                            FALSE, None, FALSE, fault)
        /\ UNCHANGED << fire_pc, build, clipboard, last_copied_value, timers, chk_auto,
                        spin_secs, settings, settings_file >>

(* as clear_saved_password, stopping the timer and forgetting the snapshot *)
ClearSavedPassword_StopsTimer ==
    \E fault \in {"none", "delete", "read"} :
    \E c \in { ClearSaved(build, in_memory, record, CurCtx, fault) } :
        /\ in_memory' = c.mem
        /\ record' = c.rec
        /\ timers' = { }
        /\ last_copied_value' = None
        /\ ev' = Ev("clear_saved_password", FALSE, None, FALSE, c.ret, FALSE, fault)
        /\ UNCHANGED << fire_pc, build, clipboard, chk_auto, spin_secs, settings,
                        settings_file >>

ClearSavedPassword ==
    \E fault \in {"none", "delete", "read"} :
    \E c \in { ClearSaved(build, in_memory, record, CurCtx, fault) } :
        /\ in_memory' = c.mem
        /\ record' = c.rec
        /\ ev' = Ev("clear_saved_password", FALSE, None, FALSE, c.ret, FALSE, fault)
        /\ UNCHANGED << fire_pc, build, clipboard, last_copied_value, timers, chk_auto,
                        spin_secs, settings, settings_file >>

CopyPassword ==
    \E d \in IF Truthy(in_memory) THEN {Cancelled} ELSE DialogOutcomes(build) :
    \E fault \in DialogFaults(build, d) \cup {"read", "cb_noop", "cb_setText"} :
    \E c \in { CopySource(build, in_memory, record, CurCtx, d.accepted, d.text,
                          d.remember, fault) } :
        LET k == CopyToClipboard(c.pw, clipboard, last_copied_value, timers,
                                 chk_auto, spin_secs, fault)
        IN /\ in_memory' = c.mem
           /\ record' = c.rec
           /\ IF c.copy
              THEN /\ clipboard' = k.clipboard
                   /\ last_copied_value' = k.snapshot
                   /\ timers' = k.timers
              ELSE UNCHANGED << clipboard, last_copied_value, timers >>
           /\ ev' = [Ev("copy_password", c.set, c.pw, c.remember, c.ret,
                        c.copy /\ ~k.raised, fault)
                       EXCEPT !.rearm = c.copy /\ ~k.raised /\ chk_auto /\ timers # { },
                              !.raised = c.copy /\ k.raised]
           /\ UNCHANGED << fire_pc, build, chk_auto, spin_secs, settings, settings_file >>

(* the interval of a pending timeout elapses *)
Elapse ==
    \E t \in timers :
        /\ ~t.due
        /\ timers' = (timers \ {t}) \cup { [t EXCEPT !.due = TRUE] }
        /\ ev' = Ev("elapse", FALSE, None, FALSE, None, FALSE, "none")
        /\ UNCHANGED << fire_pc, build, in_memory, record, clipboard, last_copied_value,
                        chk_auto, spin_secs, settings, settings_file >>

(* as the delivery of a due timeout, by a timer that is not single-shot: the
   timeout stays armed for its next interval *)
TimerFire_Repeating ==
    \E t \in timers, fault \in {"none", "cb_text", "cb_clear", "cb_noop"} :
        LET m == MaybeClearClipboard(clipboard, last_copied_value, fault) IN
        /\ t.due
        /\ timers' = (timers \ {t}) \cup { [t EXCEPT !.due = FALSE] }
        /\ clipboard' = m.clipboard
        /\ last_copied_value' = m.snapshot
        /\ ev' = Ev("timer_fire", FALSE, last_copied_value, FALSE, None, FALSE, fault)
        /\ UNCHANGED << fire_pc, build, in_memory, record, chk_auto, spin_secs, settings,
                        settings_file >>

(* a due timeout is delivered: _clear_timer.timeout -> _maybe_clear_clipboard *)
TimerFire ==
    \E t \in timers, fault \in {"none", "cb_text", "cb_clear", "cb_noop"} :
        LET m == MaybeClearClipboard(clipboard, last_copied_value, fault) IN
        /\ t.due
        /\ timers' = timers \ {t}
        /\ clipboard' = m.clipboard
        /\ last_copied_value' = m.snapshot
        /\ ev' = Ev("timer_fire", FALSE, last_copied_value, FALSE, None, FALSE, fault)
        /\ UNCHANGED << fire_pc, build, in_memory, record, chk_auto, spin_secs, settings,
                        settings_file >>

(* another application, or the user, puts text on the clipboard *)
ClipboardWrite ==
    \E v \in ClipTexts :
        /\ clipboard' = v
        /\ ev' = Ev("external_write", FALSE, None, FALSE, None, FALSE, "none")
        /\ UNCHANGED << fire_pc, build, in_memory, record, last_copied_value, timers,
                        chk_auto, spin_secs, settings, settings_file >>

(* the user ticks chk_auto or dials spin_secs *)
EditOptions ==
    \E a \in BOOLEAN, s \in SpinChoices \cup {spin_secs} :
        /\ chk_auto' = a
        /\ spin_secs' = s
        /\ ev' = Ev("edit_options", FALSE, None, FALSE, None, FALSE, "none")
        /\ UNCHANGED << fire_pc, build, in_memory, record, clipboard, last_copied_value,
                        timers, settings, settings_file >>

SaveSettings ==
    \E fault \in {"none", "open"} :
        LET s == [auto_clear |-> chk_auto, auto_clear_secs |-> spin_secs] IN
        /\ settings' = s
        /\ settings_file' = SettingsSave(s, settings_file, fault)
        /\ ev' = Ev("save_settings", FALSE, None, FALSE, None, FALSE, fault)
        /\ UNCHANGED << fire_pc, build, in_memory, record, clipboard, last_copied_value,
                        timers, chk_auto, spin_secs >>

Next ==
    \/ ChangePassword
    \/ ClearSavedPassword
    \/ CopyPassword
    \/ Elapse
    \/ TimerFire
    \/ ClipboardWrite
    \/ EditOptions
    \/ Restart

Spec == Init /\ [][Next]_vars

(***************************************************************************)
(* PasswordStore driven through its own interface, with the record file    *)
(* open to tampering between calls.                                        *)
(***************************************************************************)
InitStore ==
    /\ fire_pc = "idle"
    /\ build \in Builds
    /\ in_memory = None
    /\ record = Absent
    /\ clipboard = EmptyStr
    /\ last_copied_value = None
    /\ timers = { }
    /\ settings_file = NoSettingsFile
    /\ settings = SettingsLoad(NoSettingsFile)
    /\ chk_auto = DefaultAutoClear
    /\ spin_secs = DefaultAutoClearSecs
    /\ ev = Ev("init", FALSE, None, FALSE, None, FALSE, "none")

uiVars == << fire_pc, build, clipboard, last_copied_value, timers, chk_auto, spin_secs,
             settings, settings_file >>

(* a new PasswordStore instance: PasswordStore.__init__ *)
NewStore ==
    /\ in_memory' = None
    /\ ev' = Ev("new_store", FALSE, None, FALSE, None, FALSE, "none")
    /\ UNCHANGED << record, uiVars >>

ApiGet ==
    \E fault \in {"none", "read"} :
        LET g == StoreGet(build, in_memory, record, CurCtx, fault) IN
        /\ in_memory' = g.mem
        /\ ev' = [Ev("get", FALSE, in_memory, FALSE, g.ret, FALSE, fault)
                    EXCEPT !.raised = g.raised]
        /\ UNCHANGED << record, uiVars >>

ApiSet ==
    \E password \in Secrets, remember \in BOOLEAN,
       fault \in {"none", "encrypt", "open", "write"} :
        LET s == StoreSet(build, record, CurCtx, password, remember, fault) IN
        /\ remember \/ fault = "none"
        /\ in_memory' = s.mem
        /\ record' = s.rec
        /\ ev' = [Ev("set", TRUE, password, remember, None, FALSE, fault)
                    EXCEPT !.raised = s.raised]
        /\ UNCHANGED uiVars

ApiClearDeviceStore ==
    \E fault \in {"none", "delete"} :
        /\ record' = StoreClearDeviceStore(build, record, fault)
        /\ ev' = [Ev("clear_device_store", FALSE, None, FALSE, None, FALSE, fault)
                    EXCEPT !.repeat = (ev.op = "clear_device_store")]
        /\ UNCHANGED << in_memory, uiVars >>

ApiClearMemory ==
    /\ in_memory' = StoreClearMemory(in_memory)
    /\ ev' = Ev("clear_memory", FALSE, None, FALSE, None, FALSE, "none")
    /\ UNCHANGED << record, uiVars >>

(* The record as the store wrote it: tampering strikes such a record once. *)
Pristine(b, rec) ==
    \E s \in Secrets : rec = StoreSet(b, Absent, CurCtx, s, TRUE, "none").rec

(* base64 characters a tampering puts in place of one of the record's:
   'g', '=' and '!' *)
TamperChars == {32, Pad, Pad + 1}

(* cred.json is edited behind the store's back: one character of the
   ciphertext replaced, its last character cut, the file overwritten with
   something that is no JSON, or with a record protected in another
   user's context *)
Tamper ==
    /\ IsV2(build)
    /\ record.kind = "json"
    /\ Pristine(build, record)
    /\ \/ \E i \in 1..Len(record.enc), c \in TamperChars :
             /\ record.enc[i] # c
             /\ record' = [record EXCEPT !.enc[i] = c]
       \/ record' = [record EXCEPT !.enc = SubSeq(record.enc, 1, Len(record.enc) - 1)]
       \/ record' = Garbage
       \/ /\ IS_WINDOWS(build)
          /\ \E s \in Secrets :
                record' = StoreSet(build, Absent, ForeignCtx, s, TRUE, "none").rec
    /\ ev' = Ev("tamper", FALSE, None, FALSE, None, FALSE, "none")
    /\ UNCHANGED << in_memory, uiVars >>

NextStore ==
    \/ NewStore
    \/ ApiGet
    \/ ApiSet
    \/ ApiClearDeviceStore
    \/ ApiClearMemory
    \/ Tamper

SpecStore == InitStore /\ [][NextStore]_vars

(***************************************************************************)
(* Properties                                                              *)
(***************************************************************************)
(* what get() returns on a new store instance (empty cache), reads succeeding *)
FreshGet == StoreGet(build, None, record, CurCtx, "none").ret

(* C1: the timer's handler changes the clipboard only when the clipboard
   equals the snapshot at that moment; content that differs from the
   snapshot (what somebody copied since) is still there after the fire. *)
C1_ClearOnlyIfEqual ==
    [][ (ev'.op = "timer_fire" /\ clipboard # last_copied_value)
            => clipboard' = clipboard ]_vars

(* a timeout fired with a password as snapshot and the foreign text stayed *)
C1_ForeignTextSurvived ==
    /\ ev.op = "timer_fire"
    /\ ev.pw \in Secrets
    /\ clipboard = OtherText

(* C2: once a non-empty secret has been set with remember off (through
   change_password or copy_password, no collaborator failing), no record is
   left and get() on a new store instance returns nothing. *)
C2_ForgetOnSessionOnly ==
    (ev.set /\ ~ev.remember /\ ev.fault = "none")
        => (record.kind = "absent" /\ FreshGet = None)

PersistingBuilds == {"app_keyring", "v2_dpapi", "v2_base64"}

(* C3 as stated: after set(s, remember=true), on every build with a backend,
   get() of a new store instance returns s, whatever happened during the
   set. *)
C3_RoundTripAlways ==
    (ev.op = "set" /\ ev.remember /\ build \in PersistingBuilds)
        => FreshGet = ev.pw

(* C3, amended: after a set(s, remember=true) during which neither the
   encryption nor the writing of the record failed, on every build with a
   backend, get() of a new store instance whose read succeeds returns s. *)
C3_RoundTrip ==
    (ev.op = "set" /\ ev.remember /\ ev.fault = "none" /\ build \in PersistingBuilds)
        => FreshGet = ev.pw

(* a two-byte-character password went through DPAPI and came back *)
C3_RoundTripDone ==
    /\ ev.op = "set"
    /\ ev.remember
    /\ ev.fault = "none"
    /\ build = "v2_dpapi"
    /\ ev.pw = Secret(2)
    /\ in_memory = Secret(2)
    /\ FreshGet = Secret(2)

(* C4: set(s, remember) leaves s in the cache whether or not the record could
   be written, and from then on get() returns the cached value and nothing
   but set, clear_memory or a new instance changes the cache. *)
C4_CacheAuthoritative ==
    [][ /\ ev'.op = "set" => in_memory' = ev'.pw
        /\ (ev'.op = "get" /\ Truthy(in_memory))
              => (ev'.ret = in_memory /\ in_memory' = in_memory)
        /\ (ev'.op \in {"clear_device_store", "tamper"}) => in_memory' = in_memory
      ]_vars

(* the encryption failed during a set with remember on, and the cache holds
   the secret all the same *)
C4_KeptAfterFailure ==
    /\ ev.op = "set"
    /\ ev.remember
    /\ ev.fault = "encrypt"
    /\ build = "v2_dpapi"
    /\ in_memory = ev.pw
    /\ record.kind = "absent"

(* C8 as stated: a get() on an empty cache right after the record was
   tampered with returns nothing and leaves the cache empty. *)
C8_CorruptedRecordSafety ==
    [][ (ev.op = "tamper" /\ ev'.op = "get" /\ in_memory = None)
            => (ev'.ret = None /\ in_memory' = None) ]_vars

(* C9: a step changes the record's content, or creates a record, only when
   it is a PasswordStore.set with remember on. *)
C9_WrittenOnlyOnRemember ==
    [][ (record' # record /\ record'.kind # "absent")
            => (ev'.set /\ ev'.remember) ]_vars

(* a set with remember off, made from copy_password, left the record of an
   earlier session as it was *)
C9_RecordKept ==
    /\ ev.op = "copy_password"
    /\ ev.set
    /\ ~ev.remember
    /\ record.kind = "json"

(* C5: at most one timeout is pending; a copy made with auto-clear on while
   a timeout is pending replaces it by one whose interval starts anew, so
   that nothing fires at the earlier deadline, and records its own text as
   the snapshot; the snapshot then stays until the next copy or the fire,
   and the fire changes the clipboard only if it equals that snapshot. *)
C5_RearmSupersedes ==
    /\ [](Cardinality(timers) <= 1)
    /\ [][ /\ (ev'.op = "copy_password" /\ ev'.copied /\ chk_auto)
                => /\ timers' = { [interval |-> Max(1, spin_secs) * 1000,
                                   due |-> FALSE] }
                   /\ last_copied_value' = ev'.pw
           /\ (ev'.op \notin {"copy_password", "timer_fire", "restart"})
                => last_copied_value' = last_copied_value
           /\ (ev'.op = "timer_fire" /\ clipboard' # clipboard)
                => clipboard = last_copied_value
         ]_vars

(* the second password was copied while the timeout of an earlier copy was
   pending *)
C5_Rearmed ==
    /\ ev.op = "copy_password"
    /\ ev.rearm
    /\ ev.pw = Secret(2)
    /\ last_copied_value = Secret(2)
    /\ Cardinality(timers) = 1

(* C7: every run of the timer's handler ends with the snapshot empty and no
   timeout pending, whether it cleared the clipboard, left it alone, or met
   a clipboard failure. *)
C7_FireResets ==
    [][ ev'.op = "timer_fire" => (last_copied_value' = None /\ timers' = { }) ]_vars

(* the handler met a failing cb.clear() and the snapshot is empty *)
C7_ResetAfterFailure ==
    /\ ev.op = "timer_fire"
    /\ ev.fault = "cb_clear"
    /\ ev.pw \in Secrets
    /\ clipboard = ev.pw
    /\ last_copied_value = None
    /\ timers = { }

(* C10 as stated: a copy records the snapshot and starts the timer if and
   only if auto-clear is on when it is made; with auto-clear off it records
   no snapshot and leaves no timeout pending. *)
C10_ArmsIffEnabled ==
    [][ (ev'.op = "copy_password" /\ ev'.copied)
            => IF chk_auto
               THEN /\ last_copied_value' = ev'.pw
                    /\ timers' = { [interval |-> Max(1, spin_secs) * 1000,
                                    due |-> FALSE] }
               ELSE /\ last_copied_value' = None
                    /\ timers' = { }
      ]_vars

(***************************************************************************)
(* The application left alone while a timeout is pending: no copy, no      *)
(* foreign clipboard write and no quitting until it has fired. Time passes *)
(* and the event loop delivers a due timeout.                              *)
(***************************************************************************)
QuietCopyPassword == timers = { } /\ CopyPassword
QuietClipboardWrite == timers = { } /\ ClipboardWrite
QuietRestart == timers = { } /\ Restart

NextLive ==
    \/ ChangePassword
    \/ ClearSavedPassword
    \/ QuietCopyPassword
    \/ Elapse
    \/ TimerFire
    \/ QuietClipboardWrite
    \/ EditOptions
    \/ QuietRestart

SpecLive == Init /\ [][NextLive]_vars /\ WF_vars(Elapse) /\ WF_vars(TimerFire)

(* C6 as stated, for the fire itself: left alone after a copy, the fire
   leaves the clipboard and the snapshot empty. *)
C6_FireClears ==
    [][ ev'.op = "timer_fire"
            => (clipboard' = EmptyStr /\ last_copied_value' = None) ]_vars

(* C6, amended: a copy that armed the timer and whose clipboard write took
   effect, left alone, is followed by the fire; the fire empties the snapshot
   and, unless a clipboard call fails during it, the clipboard; and both
   stay so until the next copy or foreign write. *)
C6_AutoClearFires ==
    /\ (ev.op = "copy_password" /\ ev.copied /\ ev.fault # "cb_noop" /\ timers # { })
         ~> (/\ ev.op = "timer_fire"
             /\ last_copied_value = None
             /\ (ev.fault = "none" => clipboard = EmptyStr))
    /\ [][ (ev'.op \notin {"copy_password", "external_write", "timer_fire"})
                => /\ clipboard' = clipboard
                   /\ (last_copied_value = None => last_copied_value' = None)
         ]_vars

(* the timeout fired without fault on an untouched copy *)
C6_Cleared ==
    /\ ev.op = "timer_fire"
    /\ ev.fault = "none"
    /\ ev.pw \in Secrets
    /\ clipboard = EmptyStr
    /\ last_copied_value = None
    /\ timers = { }

(***************************************************************************)
(* PasswordStore.get, clear_device_store                                   *)
(***************************************************************************)
(* C11: get() returns a cached secret as it is, whatever the record holds
   and whether or not the record can be read; on an empty cache it returns
   the secret of a record that set wrote, keeps it in the cache, and a get()
   made after the record was deleted would still return it; with no record,
   an unreadable one or a failing read it returns empty and leaves the cache
   empty. *)
C11_GetContract ==
    /\ [][ ev'.op = "get" =>
             IF Truthy(ev'.pw)
             THEN ev'.ret = in_memory /\ in_memory' = in_memory
             ELSE /\ ev'.ret # None => (Truthy(ev'.ret) /\ in_memory' = ev'.ret)
                  /\ ev'.ret = None => in_memory' = in_memory
                  /\ (record.kind \in {"absent", "garbage"} \/ ev'.fault = "read")
                        => ev'.ret = None
                  /\ \A s \in Secrets :
                        ( /\ record.kind # "absent"
                          /\ record = StoreSet(build, Absent, CurCtx, s, TRUE, "none").rec
                          /\ ev'.fault = "none" ) => ev'.ret = s
          ]_vars
    /\ []( (ev.op = "get" /\ ev.ret # None) =>
              \A f \in {"none", "read"} :
                  StoreGet(build, in_memory, Absent, CurCtx, f).ret = ev.ret )

(* a get() on an empty cache decrypted the record and cached the secret *)
C11_LoadedAndCached ==
    /\ ev.op = "get"
    /\ ev.pw = None
    /\ ev.ret \in Secrets
    /\ in_memory = ev.ret
    /\ record.kind # "absent"

(* C12 as stated: clear_device_store always ends with the record absent
   and the cache as it was. *)
C12_DeletesAlways ==
    [][ ev'.op = "clear_device_store"
            => (record'.kind = "absent" /\ in_memory' = in_memory /\ ~ev'.raised)
      ]_vars

(* C12, amended: clear_device_store never raises and never changes the
   cache; it leaves the record absent unless the removal itself fails, in
   which case the record stays as it is; without a record it changes
   nothing; and a second call right after a first one that meets the same
   outcome leaves the state as the first left it. *)
C12_Idempotent ==
    [][ ev'.op = "clear_device_store" =>
          /\ ~ev'.raised
          /\ in_memory' = in_memory
          /\ record' \in {record, Absent}
          /\ ev'.fault = "none" => record' = Absent
          /\ record = Absent => record' = Absent
          /\ (ev'.repeat /\ ev'.fault = ev.fault) => record' = record
      ]_vars

(* clear_device_store called twice in a row on a stored record, with a
   secret in the cache *)
C12_CalledTwice ==
    /\ ev.op = "clear_device_store"
    /\ ev.repeat
    /\ ev.fault = "none"
    /\ record = Absent
    /\ in_memory \in Secrets

(***************************************************************************)
(* The handlers of MainWindow                                              *)
(***************************************************************************)
(* C13: a dialog accepted with an empty text sets nothing and copies
   nothing: the cache, the record, the clipboard, the snapshot and the
   pending timeout stay as they were; and the cache is always either None
   or a non-empty string. *)
C13_EmptyRejected ==
    /\ [](in_memory = None \/ Truthy(in_memory))
    /\ [][ (ev'.op \in {"change_password", "copy_password"} /\ ev'.pw = EmptyStr)
              => /\ ~ev'.set
                 /\ ~ev'.copied
                 /\ UNCHANGED << in_memory, record, clipboard, last_copied_value,
                                 timers >>
          ]_vars

(* an empty text was refused while a secret was cached, on the clipboard
   and waiting for its timeout *)
C13_RefusedKeepingState ==
    /\ ev.op = "change_password"
    /\ ev.pw = EmptyStr
    /\ in_memory \in Secrets
    /\ clipboard = in_memory
    /\ last_copied_value = in_memory
    /\ timers # { }

(* C14: clear_saved_password (clear_device_store, clear_memory,
   refresh_status) leaves the clipboard, the snapshot and the pending
   timeout as they were; a timeout pending at that moment is still
   delivered, and its handler changes the clipboard only by emptying it
   when it equals the snapshot. *)
C14_ClearKeepsTimer ==
    /\ [][ ev'.op = "clear_saved_password"
              => UNCHANGED << clipboard, last_copied_value, timers >> ]_vars
    /\ (ev.op = "clear_saved_password" /\ timers # { }) ~> (ev.op = "timer_fire")
    /\ [][ ev'.op = "timer_fire" =>
              /\ clipboard' # clipboard
                    => (clipboard = last_copied_value /\ clipboard' = EmptyStr)
              /\ (clipboard = last_copied_value /\ ev'.fault = "none")
                    => clipboard' = EmptyStr
          ]_vars

(* the saved password was cleared while a copied secret waited for its
   timeout *)
C14_ClearedWhilePending ==
    /\ ev.op = "clear_saved_password"
    /\ in_memory = None
    /\ timers # { }
    /\ clipboard \in Secrets
    /\ last_copied_value = clipboard

(* C15 as stated: no operation is left by an exception, whatever fails in
   the encryption, in the reading, writing or deleting of the record, or in
   the platform clipboard. *)
C15_NothingPropagates == ~ev.raised

(* the builds whose only way of writing a record is the base64 fallback *)
PassthroughOnly(b) == IsV2(b) /\ ~IS_WINDOWS(b)

(* C16: where only the base64 fallback is available, the dialog says that
   the device store is unavailable, its "remember" box cannot be ticked,
   every set is made with remember off and no record is ever written; where
   a vault or DPAPI is available, a record that set wrote is a vault entry
   or a DPAPI envelope, never the base64 encoding of the password. *)
C16_NoSilentPassthrough ==
    /\ [](PassthroughOnly(build) =>
            /\ RememberLabel(build)
                  = "Remember for this session only (device store unavailable)"
            /\ DialogRemember(build) = {FALSE}
            /\ record = Absent
            /\ ev.set => ~ev.remember)
    /\ [](~PassthroughOnly(build) =>
            /\ record.kind \in (IF IsV2(build) THEN {"absent", "json", "garbage"}
                                 ELSE {"absent", "vault"})
            /\ \A s \in Secrets :
                  record.kind = "json" => record.enc # B64Encode(Utf8Encode(s).bytes))

(* DPAPI is available and the record holds the protected password *)
C16_SecureRecord ==
    /\ build = "v2_dpapi"
    /\ ev.set
    /\ ev.remember
    /\ record.kind = "json"
    /\ dpapi_decrypt(build, record.enc, CurCtx) = ev.pw
    /\ dpapi_decrypt("v2_base64", record.enc, CurCtx) = None

(* C17 as stated: copy_password and the timer's handler leave the record
   as it was. *)
C17_CopyLeavesRecord ==
    [][ ev'.op \in {"copy_password", "timer_fire"} => record' = record ]_vars

(* C17, amended: the timer's handler leaves the record as it was, and so
   does copy_password whenever the store has a password to give; the record
   changes during copy_password only when get() returned nothing and the
   password typed in the prompt went through PasswordStore.set. *)
C17_ClipboardPartLeavesRecord ==
    [][ /\ ev'.op = "timer_fire" => record' = record
        /\ (ev'.op = "copy_password" /\ ~ev'.set) => record' = record
        /\ (ev'.op = "copy_password" /\ record' # record)
              => (ev'.set /\ ~Truthy(ev'.ret))
      ]_vars

(* a stored password was copied and its record is still there *)
C17_CopiedFromRecord ==
    /\ ev.op = "copy_password"
    /\ ev.copied
    /\ ~ev.set
    /\ record.kind \in {"json", "vault"}
    /\ clipboard = ev.pw

(***************************************************************************)
(* The application with its Settings tab: the options edited, saved to     *)
(* settings.json and loaded again at the next launch.                      *)
(***************************************************************************)
NextSettings ==
    \/ CopyPassword
    \/ Elapse
    \/ TimerFire
    \/ EditOptions
    \/ SaveSettings
    \/ Restart

SpecSettings == Init /\ [][NextSettings]_vars

(* C18: a copy starts the timer exactly when chk_auto is ticked at that
   moment, with the interval that spin_secs shows at that moment, whatever
   the Settings object holds; save_settings copies the two widgets into the
   Settings object and changes neither the widgets, nor the snapshot, nor a
   pending timeout. *)
C18_LiveValuesOnly ==
    [][ /\ (ev'.op = "copy_password" /\ ev'.copied) =>
              timers' = IF chk_auto
                        THEN { [interval |-> Max(1, spin_secs) * 1000, due |-> FALSE] }
                        ELSE timers
        /\ ev'.op = "save_settings" =>
              /\ UNCHANGED << last_copied_value, timers, chk_auto, spin_secs,
                              clipboard >>
              /\ settings' = [auto_clear |-> chk_auto, auto_clear_secs |-> spin_secs]
      ]_vars

(* a copy armed the timer from the widgets while the Settings object said
   auto-clear off and another number of seconds *)
C18_ArmedAgainstSettings ==
    /\ ev.op = "copy_password"
    /\ ev.copied
    /\ chk_auto
    /\ ~settings.auto_clear
    /\ settings.auto_clear_secs # spin_secs
    /\ timers = { [interval |-> spin_secs * 1000, due |-> FALSE] }

(***************************************************************************)
(* _maybe_clear_clipboard statement by statement: the system clipboard     *)
(* belongs to every process, so another application can write it between   *)
(* two statements of the handler. The handlers of MainWindow themselves    *)
(* run one at a time on the GUI thread.                                    *)
(***************************************************************************)
FireStep(op, fault) == Ev(op, FALSE, last_copied_value, FALSE, None, FALSE, fault)

(* the timeout is delivered; `if self._last_copied_value is None: return`,
   then `if cb.text() == self._last_copied_value` *)
FireCheck ==
    \E t \in timers, fault \in {"none", "cb_text"} :
        /\ fire_pc = "idle"
        /\ t.due
        /\ timers' = timers \ {t}
        /\ fire_pc' = IF /\ last_copied_value # None
                         /\ fault # "cb_text"
                         /\ clipboard = last_copied_value
                      THEN "clear" ELSE "finally"
        /\ ev' = FireStep("fire_check", fault)
        /\ UNCHANGED << build, in_memory, record, clipboard, last_copied_value,
                        chk_auto, spin_secs, settings, settings_file >>

(* cb.clear() *)
FireClear ==
    \E fault \in {"none", "cb_clear", "cb_noop"} :
        /\ fire_pc = "clear"
        /\ clipboard' = IF fault = "none" THEN EmptyStr ELSE clipboard
        /\ fire_pc' = IF fault = "cb_clear" THEN "finally" ELSE "setText"
        /\ ev' = FireStep("fire_clear", fault)
        /\ UNCHANGED << build, in_memory, record, last_copied_value, timers,
                        chk_auto, spin_secs, settings, settings_file >>

(* cb.setText("") *)
FireSetText ==
    \E fault \in {"none", "cb_noop"} :
        /\ fire_pc = "setText"
        /\ clipboard' = IF fault = "none" THEN EmptyStr ELSE clipboard
        /\ fire_pc' = "clear2"
        /\ ev' = FireStep("fire_setText", fault)
        /\ UNCHANGED << build, in_memory, record, last_copied_value, timers,
                        chk_auto, spin_secs, settings, settings_file >>

(* the second cb.clear() *)
FireClear2 ==
    \E fault \in {"none", "cb_noop"} :
        /\ fire_pc = "clear2"
        /\ clipboard' = IF fault = "none" THEN EmptyStr ELSE clipboard
        /\ fire_pc' = "win_clear"
        /\ ev' = FireStep("fire_clear2", fault)
        /\ UNCHANGED << build, in_memory, record, last_copied_value, timers,
                        chk_auto, spin_secs, settings, settings_file >>

(* win_clear_clipboard(): EmptyClipboard on Windows when OpenClipboard
   succeeds, nothing elsewhere; app.py runs on either kind of platform *)
FireWinClear ==
    \E emptied \in IF IsV2(build) /\ ~IS_WINDOWS(build) THEN {FALSE} ELSE BOOLEAN :
        /\ fire_pc = "win_clear"
        /\ clipboard' = IF emptied THEN EmptyStr ELSE clipboard
        /\ fire_pc' = "finally"
        /\ ev' = FireStep("fire_win_clear", IF emptied THEN "none" ELSE "cb_noop")
        /\ UNCHANGED << build, in_memory, record, last_copied_value, timers,
                        chk_auto, spin_secs, settings, settings_file >>

(* finally: self._last_copied_value = None *)
FireFinally ==
    /\ fire_pc = "finally"
    /\ last_copied_value' = None
    /\ fire_pc' = "idle"
    /\ ev' = FireStep("fire_finally", "none")
    /\ UNCHANGED << build, in_memory, record, clipboard, timers,
                    chk_auto, spin_secs, settings, settings_file >>

(* copy_password and the options, between two runs of a handler *)
IdleCopyPassword == fire_pc = "idle" /\ CopyPassword
IdleEditOptions == fire_pc = "idle" /\ EditOptions

NextRace ==
    \/ IdleCopyPassword
    \/ IdleEditOptions
    \/ Elapse
    \/ FireCheck
    \/ FireClear
    \/ FireSetText
    \/ FireClear2
    \/ FireWinClear
    \/ FireFinally
    \/ ClipboardWrite

SpecRace == Init /\ [][NextRace]_vars

(* C19 as stated: with other applications writing the clipboard between
   the statements of the timer's handler, no statement of the handler
   changes a clipboard that differs from the snapshot. *)
C19_ForeignWriteSurvives ==
    [][ ( /\ ev'.op \in {"fire_clear", "fire_setText", "fire_clear2",
                          "fire_win_clear"}
          /\ clipboard # last_copied_value )
            => clipboard' = clipboard ]_vars

(* C20 as stated: the text a copy made with auto-clear off has put on the
   clipboard is not removed by the timeout that an earlier copy, made with
   auto-clear on, left pending. *)
C20_DisabledCopySurvivesTimer ==
    [][ ( /\ ev.op = "copy_password"
          /\ ev.copied
          /\ ~chk_auto
          /\ clipboard = ev.pw
          /\ ev'.op = "timer_fire" )
            => clipboard' = clipboard ]_vars

(***************************************************************************)
(* What a failed step leaves behind                                        *)
(***************************************************************************)
(* C21 as stated: after set(s, remember=true), whatever failed in it, a
   new PasswordStore instance reading the record gets s or nothing, never
   an earlier secret. *)
C21_NoStaleRecord ==
    (ev.op = "set" /\ ev.remember) => FreshGet \in {ev.pw, None}

(* C22 as stated: when clear_saved_password has run (clear_device_store,
   clear_memory, refresh_status), the cache is empty, the get() of
   refresh_status returned nothing, and a get() made from then on, before
   any set, would return nothing. *)
C22_ClearedMeansEmpty ==
    ev.op = "clear_saved_password"
        => (in_memory = None /\ ev.ret = None /\ FreshGet = None)

(***************************************************************************)
(* The timer                                                               *)
(***************************************************************************)
(* C23: while a timeout is pending the snapshot holds a non-empty text, so
   the timer's handler never finds the snapshot empty. *)
C23_PendingHasSnapshot ==
    /\ [](timers # { } => Truthy(last_copied_value))
    /\ [][ ev'.op = "timer_fire" => Truthy(last_copied_value) ]_vars

(* a timeout is due and the snapshot holds the secret copied *)
C23_DueWithSnapshot ==
    /\ \E t \in timers : t.due
    /\ last_copied_value \in Secrets
    /\ ev.op = "elapse"

(* C24 as stated: the timer is one-shot, and once it has fired this
   application does not change the clipboard again except by a copy made
   with auto-clear enabled, which arms the timer again. *)
C24_QuietUntilArmingCopy ==
    [][ /\ ev'.op = "timer_fire" => (timers # { } /\ timers' = { })
        /\ (ev.op = "timer_fire" /\ clipboard' # clipboard
                /\ ev'.op # "external_write")
               => (ev'.op = "copy_password" /\ chk_auto /\ timers' # { })
      ]_vars

(* C24: at most one timeout is pending; a fire consumes it, so that no
   second fire follows until a timeout is armed again; a timeout is armed
   only by a copy made with auto-clear enabled; and while none is pending the
   application changes the clipboard only by copying a secret to it. *)
C24_OneShot ==
    /\ [](Cardinality(timers) <= 1)
    /\ [][ /\ ev'.op = "timer_fire" => (timers # { } /\ timers' = { })
           /\ (timers = { } /\ timers' # { })
                  => (ev'.op = "copy_password" /\ ev'.copied /\ chk_auto)
           /\ (timers = { } /\ clipboard' # clipboard
                   /\ ev'.op # "external_write")
                  => (ev'.op = "copy_password" /\ ev'.copied
                        /\ clipboard' = ev'.pw /\ Truthy(ev'.pw))
         ]_vars

(* with no timeout pending, a copy made with auto-clear off has put the
   secret on the clipboard and armed nothing *)
C24_CopiedUnarmedAfterFire ==
    /\ ev.op = "copy_password" /\ ev.copied
    /\ ~chk_auto
    /\ timers = { }
    /\ last_copied_value = ev.pw
    /\ clipboard = ev.pw

(***************************************************************************)
(* The application launched over a settings.json that was edited by hand:  *)
(* Settings.load takes any integer for auto_clear_secs, and the spin box   *)
(* is given that number at launch.                                         *)
(***************************************************************************)
(* auto_clear_secs as found in the file: non-positive, below the range, its
   two ends, above it *)
HandEditedSecs == { -5, 0, 1, 2, 3, 300, 301, 100000 }

HandEditedSettingsFiles ==
    { SettingsJson(a, s) : a \in BOOLEAN, s \in HandEditedSecs }

InitTtl ==
    /\ fire_pc = "idle"
    /\ build \in Builds
    /\ settings_file \in HandEditedSettingsFiles
    /\ record = Absent
    /\ clipboard = EmptyStr
    /\ LET m == Launched(build, record, settings_file, "none") IN
         /\ settings = m.settings
         /\ in_memory = m.in_memory
         /\ last_copied_value = m.last_copied_value
         /\ timers = m.timers
         /\ chk_auto = m.chk_auto
         /\ spin_secs = m.spin_secs
    /\ ev = Ev("init", FALSE, None, FALSE, None, FALSE, "none")

NextTtl ==
    \/ CopyPassword
    \/ Elapse
    \/ TimerFire
    \/ EditOptions
    \/ SaveSettings
    \/ Restart

SpecTtl == InitTtl /\ [][NextTtl]_vars

(* C25: the spin box shows a whole number of seconds from 3 to 300 whatever
   auto_clear_secs the settings file held, and a copy made with auto-clear
   ticked arms the timer for that number of seconds times 1000 ms. *)
C25_IntervalInRange ==
    /\ [](spin_secs \in SpinMin..SpinMax)
    /\ [](\A t \in timers :
             \E ttl \in SpinMin..SpinMax : t.interval = ttl * 1000)
    /\ [][ (ev'.op = "copy_password" /\ ev'.copied /\ chk_auto)
              => timers' = { [interval |-> spin_secs * 1000, due |-> FALSE] }
         ]_vars

(* a copy armed the timer for 3 s, the Settings object holding a non-positive
   auto_clear_secs loaded from the file *)
C25_ArmedFromNonPositive ==
    /\ ev.op = "copy_password"
    /\ ev.copied
    /\ settings.auto_clear_secs <= 0
    /\ settings_file.auto_clear_secs <= 0
    /\ timers = { [interval |-> SpinMin * 1000, due |-> FALSE] }

====
